---- MODULE Spec2Model ----
(***************************************************************************)
(* Model of compare_script.py: the line indexer                            *)
(* (read_file_with_line_numbers), the comparator                           *)
(* (analyze_and_compare_csv_files), the output writer (write_to_file) and  *)
(* the command-line entry point.                                           *)
(*                                                                         *)
(* Text is modelled at the level of characters: a character is its code    *)
(* point, a line is the sequence of the characters the file iterator       *)
(* yields for it (terminator included), a file is the sequence of its      *)
(* lines.  Python compares strings by code point and tuples                *)
(* lexicographically; both orders are modelled as the code computes them.  *)
(***************************************************************************)
EXTENDS Integers, Sequences, FiniteSets, TLC

VARIABLES
    argc,                    \* len(sys.argv)
    file1, file2,            \* the two input files as found on disk
    dirState,                \* the output directory: "absent", "dir" or "file"
    outFiles,                \* content of the five output files
    pc,                      \* position of the program
    lines1_map, lines2_map,  \* the two indices
    duplicates1, duplicates2,
    only_in_file1_contents, only_in_file2_contents, in_both_files_contents,
    only_in_file1, only_in_file2, in_both_files,
    stdout,                  \* what has been printed, in order
    attempted,               \* the output files opened for writing, in order
    exitCode                 \* -1 while running, then the process's exit code

vars == <<argc, file1, file2, dirState, outFiles, pc, lines1_map, lines2_map,
          duplicates1, duplicates2, only_in_file1_contents,
          only_in_file2_contents, in_both_files_contents, only_in_file1,
          only_in_file2, in_both_files, stdout, attempted, exitCode>>

-----------------------------------------------------------------------------
(* Bounds of the model *)

\* body lines (after the header) of a file compared by SpecCompare
MaxBody == 3
\* body lines of a file in a whole run of the program (Spec)
MaxRunBody == 2

-----------------------------------------------------------------------------
(* Text *)

\* characters str.strip() removes: Python's whitespace
IsSpace(ch) ==
    ch \in {9, 10, 11, 12, 13, 28, 29, 30, 31, 32, 133, 160, 5760, 8232, 8233,
            8239, 8287, 12288} \cup 8192..8202

RECURSIVE LStrip(_)
LStrip(s) ==
    IF s = <<>> THEN <<>>
    ELSE IF IsSpace(Head(s)) THEN LStrip(Tail(s)) ELSE s

RECURSIVE RStrip(_)
RStrip(s) ==
    IF s = <<>> THEN <<>>
    ELSE IF IsSpace(s[Len(s)]) THEN RStrip(SubSeq(s, 1, Len(s) - 1)) ELSE s

\* a strip that leaves the end of the line, its terminator included
StripLeftOnly(line) == LStrip(line)

\* line.strip()
Strip(line) == RStrip(LStrip(line))

\* a < b for two strings: by code point, a proper prefix first
RECURSIVE StrLess(_, _)
StrLess(a, b) ==
    IF b = <<>> THEN FALSE
    ELSE IF a = <<>> THEN TRUE
    ELSE IF Head(a) # Head(b) THEN Head(a) < Head(b)
    ELSE StrLess(Tail(a), Tail(b))

\* p < q for two (line number, content) tuples
PairLess(p, q) ==
    \/ p[1] < q[1]
    \/ p[1] = q[1] /\ StrLess(p[2], q[2])

-----------------------------------------------------------------------------
(* Sorting *)

\* sorted(list(S)) for a set S of strings
RECURSIVE SortedContents(_)
SortedContents(S) ==
    IF S = {} THEN <<>>
    ELSE LET m == CHOOSE x \in S : \A y \in S \ {x} : StrLess(x, y)
         IN  <<m>> \o SortedContents(S \ {m})

RECURSIVE InsertPair(_, _)
InsertPair(p, s) ==
    IF s = <<>> THEN <<p>>
    ELSE IF PairLess(p, Head(s)) THEN <<p>> \o s
    ELSE <<Head(s)>> \o InsertPair(p, Tail(s))

\* sorted(l) for a list l of (line number, content) tuples
RECURSIVE SortedPairs(_)
SortedPairs(l) ==
    IF l = <<>> THEN <<>>
    ELSE InsertPair(l[Len(l)], SortedPairs(SubSeq(l, 1, Len(l) - 1)))

-----------------------------------------------------------------------------
(* read_file_with_line_numbers *)

EmptyMap == [c \in {} |-> <<>>]

\* lines_map after "lines_map[content].append(i)", the list created if absent
AppendLine(map, content, i) ==
    [c \in DOMAIN map \cup {content} |->
        IF c = content
        THEN (IF c \in DOMAIN map THEN map[c] ELSE <<>>) \o <<i>>
        ELSE map[c]]

\* the loop with the header test off by one: line 1 is indexed like the rest
RECURSIVE ReadLoopHeaderKept(_, _, _)
ReadLoopHeaderKept(lines, i, map) ==
    IF i > Len(lines) THEN map
    ELSE IF i <= 0 THEN ReadLoopHeaderKept(lines, i + 1, map)
    ELSE LET content == Strip(lines[i])
         IN  IF content # <<>>
             THEN ReadLoopHeaderKept(lines, i + 1, AppendLine(map, content, i))
             ELSE ReadLoopHeaderKept(lines, i + 1, map)

\* the loop "for i, line in enumerate(f, 1)" from line i on
RECURSIVE ReadLoop(_, _, _)
ReadLoop(lines, i, map) ==
    IF i > Len(lines) THEN map
    ELSE IF i <= 1 THEN ReadLoop(lines, i + 1, map)
    ELSE LET content == Strip(lines[i])
         IN  IF content # <<>>
             THEN ReadLoop(lines, i + 1, AppendLine(map, content, i))
             ELSE ReadLoop(lines, i + 1, map)

ReadFileWithLineNumbers(lines) == ReadLoop(lines, 1, EmptyMap)

-----------------------------------------------------------------------------
(* analyze_and_compare_csv_files: the comparison *)

\* the duplicate test off by one: len(nums) >= 1
DuplicatesFromOne(map) ==
    [c \in {k \in DOMAIN map : Len(map[k]) >= 1} |-> map[c]]

\* {content: nums for content, nums in map.items() if len(nums) > 1}
Duplicates(map) ==
    [c \in {k \in DOMAIN map : Len(map[k]) > 1} |-> map[c]]

\* the difference forgotten: every key of the first operand
OnlyInContentsAll(keysA, keysB) == SortedContents(keysA)

OnlyInContents(keysA, keysB) == SortedContents(keysA \ keysB)

InBothContents(keysA, keysB) == SortedContents(keysA \cap keysB)

\* [(num, c) for num in nums]
RECURSIVE PairsOf(_, _)
PairsOf(nums, c) ==
    IF nums = <<>> THEN <<>>
    ELSE <<<<Head(nums), c>>>> \o PairsOf(Tail(nums), c)

\* [(num, c) for c in contents for num in map[c]]
RECURSIVE ExpandAll(_, _)
ExpandAll(contents, map) ==
    IF contents = <<>> THEN <<>>
    ELSE PairsOf(map[Head(contents)], Head(contents))
         \o ExpandAll(Tail(contents), map)

\* the last listed line instead of the first: map[c][-1]
RECURSIVE RepresentativesLast(_, _)
RepresentativesLast(contents, map) ==
    IF contents = <<>> THEN <<>>
    ELSE <<<<map[Head(contents)][Len(map[Head(contents)])], Head(contents)>>>>
         \o RepresentativesLast(Tail(contents), map)

\* [(map[c][0], c) for c in contents]
RECURSIVE Representatives(_, _)
Representatives(contents, map) ==
    IF contents = <<>> THEN <<>>
    ELSE <<<<map[Head(contents)][1], Head(contents)>>>>
         \o Representatives(Tail(contents), map)

\* the final sort forgotten: rows in the order of the sorted contents
OnlyInUnsorted(contents, map) == ExpandAll(contents, map)

OnlyIn(contents, map) == SortedPairs(ExpandAll(contents, map))

InBoth(contents, map) == SortedPairs(Representatives(contents, map))

\* the keys of a dict in iteration order: the order of first insertion, which
\* for an index is the order of the first line number of each content
RECURSIVE KeysInOrder(_, _)
KeysInOrder(map, keys) ==
    IF keys = {} THEN <<>>
    ELSE LET k == CHOOSE x \in keys : \A y \in keys : map[x][1] <= map[y][1]
         IN  <<k>> \o KeysInOrder(map, keys \ {k})

\* sorted([(num, content) for content, nums in duplicates.items() for num in nums])
DupLines(duplicates) ==
    SortedPairs(ExpandAll(KeysInOrder(duplicates, DOMAIN duplicates), duplicates))

-----------------------------------------------------------------------------
(* The environment: input files, output directory, output files *)

LineX == <<120, 10>>                \* "x\n"
LineXPadded == <<32, 120, 13, 10>>  \* " x\r\n"
LineYZ == <<121, 32, 122, 10>>      \* "y z\n"
LineW == <<119, 10>>                \* "w\n"
LineBlank == <<32, 9, 10>>          \* " \t\n"

Headers == {LineX}
\* the body lines of the first and of the second file: between them three
\* contents, one of them in two paddings, and a whitespace-only line
Pool1 == {LineX, LineXPadded, LineYZ, LineBlank}
Pool2 == {LineX, LineYZ, LineW, LineBlank}

SeqsUpTo(S, n) == UNION {[1..k -> S] : k \in 0..n}

\* the texts of at most n body lines: the empty file, or a header and a body
Texts(headers, pool, n) ==
    {<<>>} \cup {<<h>> \o b : h \in headers, b \in SeqsUpTo(pool, n)}

Readable(texts) == {[kind |-> "ok", lines |-> t] : t \in texts}

\* a path that does not exist, and one that exists and cannot be read as text
Missing == [kind |-> "missing", lines |-> <<>>]
Unreadable == [kind |-> "unreadable", lines |-> <<>>]

CompareFiles1 == Readable(Texts(Headers, Pool1, MaxBody))
CompareFiles2 == Readable(Texts(Headers, Pool2, MaxBody))
RunFiles == Readable(Texts(Headers, {LineX, LineYZ}, MaxRunBody))
                \cup {Missing, Unreadable}

\* the output files in the order the program writes them
OutputNames == <<"only_in_before.csv", "only_in_after.csv", "in_both.csv",
                 "duplicates_in_before.csv", "duplicates_in_after.csv">>
OutputSet == {OutputNames[i] : i \in DOMAIN OutputNames}

CsvHeader == <<"Line", "Content">>

Absent == [state |-> "absent", header |-> <<>>, rows |-> <<>>]
\* a file left by an earlier run
Stale == [state |-> "stale", header |-> CsvHeader, rows |-> <<>>]
\* a file opened for writing (and so truncated) whose writing then failed
Partial == [state |-> "partial", header |-> <<>>, rows |-> <<>>]
\* writer.writerow(header); writer.writerows(data_tuples)
Written(data) == [state |-> "written", header |-> CsvHeader, rows |-> data]

Msg(tag, path, counts) == [tag |-> tag, path |-> path, counts |-> counts]

-----------------------------------------------------------------------------
(* Initial states *)

NoLocals ==
    /\ lines1_map = EmptyMap /\ lines2_map = EmptyMap
    /\ duplicates1 = EmptyMap /\ duplicates2 = EmptyMap
    /\ only_in_file1_contents = <<>> /\ only_in_file2_contents = <<>>
    /\ in_both_files_contents = <<>>
    /\ only_in_file1 = <<>> /\ only_in_file2 = <<>> /\ in_both_files = <<>>

Launched ==
    /\ pc = "main"
    /\ stdout = <<>>
    /\ attempted = <<>>
    /\ exitCode = -1
    /\ NoLocals

\* a whole run: any argument count, any state of the inputs and of the output
\* directory
Init ==
    /\ argc \in {3, 4, 5}
    /\ file1 \in RunFiles
    /\ file2 \in RunFiles
    /\ dirState \in {"absent", "dir", "file"}
    /\ outFiles \in {[f \in OutputSet |-> Absent]}
                    \cup (IF dirState = "dir"
                          THEN {[f \in OutputSet |-> Stale]} ELSE {})
    /\ Launched

\* the comparison of two readable files
InitCompare ==
    /\ argc = 4
    /\ file1 \in CompareFiles1
    /\ file2 \in CompareFiles2
    /\ dirState = "dir"
    /\ outFiles = [f \in OutputSet |-> Absent]
    /\ Launched

-----------------------------------------------------------------------------
(* The program *)

envVars == <<argc, file1, file2>>
indexVars == <<lines1_map, lines2_map>>
resultVars == <<duplicates1, duplicates2, only_in_file1_contents,
                only_in_file2_contents, in_both_files_contents, only_in_file1,
                only_in_file2, in_both_files>>
diskVars == <<dirState, outFiles, attempted>>

\* __main__ with a wrong argument count: usage message, sys.exit(1)
UsageError ==
    /\ pc = "main"
    /\ argc # 4
    /\ stdout' = Append(stdout, Msg("usage", "", <<>>))
    /\ exitCode' = 1
    /\ pc' = "exit"
    /\ UNCHANGED <<envVars, indexVars, resultVars, diskVars>>

\* __main__ with three arguments: echo them, call analyze_and_compare_csv_files
Start ==
    /\ pc = "main"
    /\ argc = 4
    /\ stdout' = Append(stdout, Msg("arguments", "", <<>>))
    /\ pc' = "read1"
    /\ UNCHANGED <<envVars, indexVars, resultVars, diskVars, exitCode>>

\* what a failed read prints: read_file_with_line_numbers reports a missing
\* file and re-raises, any other exception passes through it; the caller
\* catches either and reports the interruption
ReadFailureOutput(file, path) ==
    (IF file.kind = "missing" THEN <<Msg("not_found", path, <<>>)>> ELSE <<>>)
    \o <<Msg("aborted", path, <<>>)>>

ReadFile1Ok ==
    /\ pc = "read1"
    /\ file1.kind = "ok"
    /\ lines1_map' = ReadFileWithLineNumbers(file1.lines)
    /\ pc' = "read2"
    /\ UNCHANGED <<envVars, lines2_map, resultVars, diskVars, stdout, exitCode>>

\* the except clause returns; the call is the script's last statement, so the
\* interpreter then exits with status 0
ReadFile1Fail ==
    /\ pc = "read1"
    /\ file1.kind # "ok"
    /\ stdout' = stdout \o ReadFailureOutput(file1, "before")
    /\ exitCode' = 0
    /\ pc' = "exit"
    /\ UNCHANGED <<envVars, indexVars, resultVars, diskVars>>

\* the failure swallowed: the comparison goes on with an empty second index
ReadFile2FailIgnored ==
    /\ pc = "read2"
    /\ file2.kind # "ok"
    /\ stdout' = stdout \o ReadFailureOutput(file2, "after")
    /\ pc' = "compare"
    /\ UNCHANGED <<envVars, indexVars, resultVars, diskVars, exitCode>>

ReadFile2Ok ==
    /\ pc = "read2"
    /\ file2.kind = "ok"
    /\ lines2_map' = ReadFileWithLineNumbers(file2.lines)
    /\ pc' = "compare"
    /\ UNCHANGED <<envVars, lines1_map, resultVars, diskVars, stdout, exitCode>>

ReadFile2Fail ==
    /\ pc = "read2"
    /\ file2.kind # "ok"
    /\ stdout' = stdout \o ReadFailureOutput(file2, "after")
    /\ exitCode' = 0
    /\ pc' = "exit"
    /\ UNCHANGED <<envVars, indexVars, resultVars, diskVars>>

Compare ==
    /\ pc = "compare"
    /\ duplicates1' = Duplicates(lines1_map)
    /\ duplicates2' = Duplicates(lines2_map)
    /\ only_in_file1_contents' =
           OnlyInContents(DOMAIN lines1_map, DOMAIN lines2_map)
    /\ only_in_file2_contents' =
           OnlyInContents(DOMAIN lines2_map, DOMAIN lines1_map)
    /\ in_both_files_contents' =
           InBothContents(DOMAIN lines1_map, DOMAIN lines2_map)
    /\ only_in_file1' = OnlyIn(only_in_file1_contents', lines1_map)
    /\ only_in_file2' = OnlyIn(only_in_file2_contents', lines2_map)
    /\ in_both_files' = InBoth(in_both_files_contents', lines1_map)
    /\ pc' = "print"
    /\ UNCHANGED <<envVars, indexVars, diskVars, stdout, exitCode>>

SummaryCounts ==
    <<Cardinality(DOMAIN duplicates1), Cardinality(DOMAIN duplicates2),
      Len(only_in_file1), Len(only_in_file2), Len(in_both_files)>>

PrintSummary ==
    /\ pc = "print"
    /\ stdout' = Append(stdout, Msg("summary", "", SummaryCounts))
    /\ pc' = "ensure_dir"
    /\ UNCHANGED <<envVars, indexVars, resultVars, diskVars, exitCode>>

\* the directory taken for granted: neither tested nor created
DirNotChecked ==
    /\ pc = "ensure_dir"
    /\ pc' = "write1"
    /\ UNCHANGED <<envVars, indexVars, resultVars, diskVars, stdout, exitCode>>

\* os.path.exists(output_dir) holds: nothing to create
DirExists ==
    /\ pc = "ensure_dir"
    /\ dirState # "absent"
    /\ pc' = "write1"
    /\ UNCHANGED <<envVars, indexVars, resultVars, diskVars, stdout, exitCode>>

MakeDirsOk ==
    /\ pc = "ensure_dir"
    /\ dirState = "absent"
    /\ dirState' = "dir"
    /\ stdout' = Append(stdout, Msg("dir_created", "", <<>>))
    /\ pc' = "write1"
    /\ UNCHANGED <<envVars, indexVars, resultVars, outFiles, attempted, exitCode>>

\* os.makedirs raises and nothing catches it: the interpreter exits with 1
MakeDirsFail ==
    /\ pc = "ensure_dir"
    /\ dirState = "absent"
    /\ exitCode' = 1
    /\ pc' = "exit"
    /\ UNCHANGED <<envVars, indexVars, resultVars, diskVars, stdout>>

WritePc == <<"write1", "write2", "write3", "write4", "write5">>

AfterWrite(i) == IF i < Len(OutputNames) THEN WritePc[i + 1] ELSE "finish"

\* the list handed to the i-th write_to_file call
WriteData(i) ==
    CASE i = 1 -> only_in_file1
      [] i = 2 -> only_in_file2
      [] i = 3 -> in_both_files
      [] i = 4 -> DupLines(duplicates1)
      [] i = 5 -> DupLines(duplicates2)

WriteOk ==
    \E i \in DOMAIN OutputNames :
        /\ pc = WritePc[i]
        /\ dirState = "dir"
        /\ outFiles' = [outFiles EXCEPT ![OutputNames[i]] = Written(WriteData(i))]
        /\ attempted' = Append(attempted, OutputNames[i])
        /\ pc' = AfterWrite(i)
        /\ UNCHANGED <<envVars, indexVars, resultVars, dirState, stdout, exitCode>>

\* open() raises and nothing catches it: the run ends there
WriteOpenFailUncaught ==
    \E i \in DOMAIN OutputNames :
        /\ pc = WritePc[i]
        /\ attempted' = Append(attempted, OutputNames[i])
        /\ exitCode' = 1
        /\ pc' = "exit"
        /\ UNCHANGED <<envVars, indexVars, resultVars, dirState, outFiles, stdout>>

\* open() raises: the file is left as it was, the error is caught and printed
WriteOpenFail ==
    \E i \in DOMAIN OutputNames :
        /\ pc = WritePc[i]
        /\ attempted' = Append(attempted, OutputNames[i])
        /\ stdout' = Append(stdout, Msg("write_error", OutputNames[i], <<>>))
        /\ pc' = AfterWrite(i)
        /\ UNCHANGED <<envVars, indexVars, resultVars, dirState, outFiles, exitCode>>

\* open() succeeds and a write raises: the file is left truncated, the error
\* is caught and printed
WriteCutShort ==
    \E i \in DOMAIN OutputNames :
        /\ pc = WritePc[i]
        /\ dirState = "dir"
        /\ outFiles' = [outFiles EXCEPT ![OutputNames[i]] = Partial]
        /\ attempted' = Append(attempted, OutputNames[i])
        /\ stdout' = Append(stdout, Msg("write_error", OutputNames[i], <<>>))
        /\ pc' = AfterWrite(i)
        /\ UNCHANGED <<envVars, indexVars, resultVars, dirState, exitCode>>

\* the closing message; the function returns and the script ends
Finish ==
    /\ pc = "finish"
    /\ stdout' = Append(stdout, Msg("done", "", <<>>))
    /\ exitCode' = 0
    /\ pc' = "exit"
    /\ UNCHANGED <<envVars, indexVars, resultVars, diskVars>>

Next ==
    \/ UsageError
    \/ Start
    \/ ReadFile1Ok
    \/ ReadFile1Fail
    \/ ReadFile2Ok
    \/ ReadFile2Fail
    \/ Compare
    \/ PrintSummary
    \/ DirExists
    \/ MakeDirsOk
    \/ MakeDirsFail
    \/ WriteOk
    \/ WriteOpenFail
    \/ WriteCutShort
    \/ Finish

Spec == Init /\ [][Next]_vars

\* the indexing and comparison of two readable files
NextCompare ==
    \/ Start
    \/ ReadFile1Ok
    \/ ReadFile2Ok
    \/ Compare

SpecCompare == InitCompare /\ [][NextCompare]_vars

-----------------------------------------------------------------------------
(* Vocabulary of the properties *)

Range(s) == {s[i] : i \in DOMAIN s}

Keys1 == DOMAIN lines1_map
Keys2 == DOMAIN lines2_map

\* the first index has been returned; the second; the comparison has been made
Indexed1 == pc \notin {"main", "read1"}
Indexed2 == pc \notin {"main", "read1", "read2"}
Compared == pc \in {"print", "ensure_dir", "finish"} \cup Range(WritePc)

Least(S) == CHOOSE n \in S : \A m \in S : n <= m
Greatest(S) == CHOOSE n \in S : \A m \in S : m <= n

\* the text of a line without the whitespace at its two ends: what lies
\* between its first and its last character that is no whitespace
Stripped(line) ==
    LET solid == {i \in 1..Len(line) : ~IsSpace(line[i])}
    IN  IF solid = {} THEN <<>>
        ELSE SubSeq(line, Least(solid), Greatest(solid))

\* the body lines (all but line 1) of a text whose stripped text is c
BodyLinesWith(lines, c) == {n \in 2..Len(lines) : Stripped(lines[n]) = c}

\* the line numbers of a list of (line number, content) rows strictly ascend
AscendingByLine(rows) ==
    \A i \in 1..(Len(rows) - 1) : rows[i][1] < rows[i + 1][1]

Printed(tag) == \E i \in DOMAIN stdout : stdout[i].tag = tag

ReadFailed == argc = 4 /\ (file1.kind # "ok" \/ file2.kind # "ok")

-----------------------------------------------------------------------------
(* Properties of the indexer and of the comparison (SpecCompare) *)

\* C1 - partition completeness: the three content lists the comparison
\* computes are pairwise disjoint, together they hold exactly the keys of the
\* two indices, and every key of either index is in exactly one of them.
PartitionComplete ==
    Compared =>
        LET A == Range(only_in_file1_contents)
            B == Range(only_in_file2_contents)
            C == Range(in_both_files_contents)
        IN  /\ A \cap B = {} /\ A \cap C = {} /\ B \cap C = {}
            /\ A \cup B \cup C = Keys1 \cup Keys2
            /\ \A c \in Keys1 \cup Keys2 :
                   Cardinality({S \in {A, B, C} : c \in S}) = 1

\* the three classes are all inhabited, the keys being those of two real files
PartitionWitness ==
    /\ Compared
    /\ only_in_file1_contents # <<>>
    /\ only_in_file2_contents # <<>>
    /\ in_both_files_contents # <<>>

\* C2 - representative of a common line: in_both_files holds exactly one row
\* per content present in both indices and no other row, and the row's line
\* number is the smallest line of the first file that holds the content.
InBothRepresentative ==
    Compared =>
        /\ Len(in_both_files) = Cardinality(Keys1 \cap Keys2)
        /\ \A c \in Keys1 \cap Keys2 :
               <<Least(BodyLinesWith(file1.lines, c)), c>> \in Range(in_both_files)
        /\ \A r \in Range(in_both_files) :
               /\ r[2] \in Keys1 \cap Keys2
               /\ r[1] = Least(BodyLinesWith(file1.lines, r[2]))

\* a common content that the first file holds twice, and the second file
\* holds earlier than the first does
InBothWitness ==
    /\ Compared
    /\ \E c \in Keys1 \cap Keys2 :
           /\ Len(lines1_map[c]) > 1
           /\ lines2_map[c][1] < lines1_map[c][1]
           /\ <<lines1_map[c][1], c>> \in Range(in_both_files)

\* C3 - full expansion: only_in_file1 is the list, ascending by line number,
\* of every (n, c) with c a key of the first index and not of the second and
\* n any line listed for c; only_in_file2 likewise, the indices exchanged.
OnlyInFullExpansion ==
    Compared =>
        /\ AscendingByLine(only_in_file1)
        /\ Range(only_in_file1) =
               UNION {{<<lines1_map[c][i], c>> : i \in DOMAIN lines1_map[c]}
                          : c \in Keys1 \ Keys2}
        /\ AscendingByLine(only_in_file2)
        /\ Range(only_in_file2) =
               UNION {{<<lines2_map[c][i], c>> : i \in DOMAIN lines2_map[c]}
                          : c \in Keys2 \ Keys1}

\* a content only the first file holds, twice, with a line of another such
\* content in between, so that the rows by content are out of line order
OnlyInWitness ==
    /\ Compared
    /\ \E c \in Keys1 \ Keys2 : Len(lines1_map[c]) > 1
    /\ ExpandAll(only_in_file1_contents, lines1_map) # only_in_file1
    /\ only_in_file2 # <<>>

\* the rows of every occurrence of the contents a text holds more than once
\* in its body
RepeatedRows(lines) ==
    {<<n, Stripped(lines[n])>> : n \in
        {k \in 2..Len(lines) :
            /\ Stripped(lines[k]) # <<>>
            /\ Cardinality(BodyLinesWith(lines, Stripped(lines[k]))) > 1}}

\* C4 - duplicates: the rows written for the duplicates of a file are one row
\* per occurrence of every content the file holds more than once and no row
\* of a content it holds once, so their number is the number of occurrences;
\* they are determined by that file alone.
DuplicateRows ==
    Compared =>
        LET dup_lines1 == DupLines(duplicates1)
            dup_lines2 == DupLines(duplicates2)
        IN  /\ Range(dup_lines1) = RepeatedRows(file1.lines)
            /\ Len(dup_lines1) = Cardinality(RepeatedRows(file1.lines))
            /\ Range(dup_lines2) = RepeatedRows(file2.lines)
            /\ Len(dup_lines2) = Cardinality(RepeatedRows(file2.lines))

\* a file with a content held twice and another held once, the other file
\* holding no duplicate
DuplicateWitness ==
    /\ Compared
    /\ \E c \in Keys1 : Len(lines1_map[c]) = 2
    /\ \E c \in Keys1 : Len(lines1_map[c]) = 1
    /\ Len(DupLines(duplicates1)) > Cardinality(DOMAIN duplicates1)
    /\ DupLines(duplicates2) = <<>>
    /\ Keys2 # {}

OutputLists ==
    {only_in_file1, only_in_file2, in_both_files,
     DupLines(duplicates1), DupLines(duplicates2)}

\* C5 - header exclusion: line 1 is listed in no index and is the line number
\* of no row of the five outputs; a header whose text is also in the body is
\* no occurrence of it: the content has as many listed lines as the body has
\* lines with it.
HeaderExcluded ==
    /\ \A c \in Keys1 :
           /\ 1 \notin Range(lines1_map[c])
           /\ Len(lines1_map[c]) = Cardinality(BodyLinesWith(file1.lines, c))
    /\ \A c \in Keys2 :
           /\ 1 \notin Range(lines2_map[c])
           /\ Len(lines2_map[c]) = Cardinality(BodyLinesWith(file2.lines, c))
    /\ \A l \in OutputLists : \A r \in Range(l) : r[1] # 1

\* the header's text is in the body of both files once, so it is a common
\* line and no duplicate
HeaderWitness ==
    /\ Compared
    /\ \E c \in Keys1 \cap Keys2 :
           /\ Stripped(file1.lines[1]) = c
           /\ Stripped(file2.lines[1]) = c
           /\ Len(lines1_map[c]) = 1
           /\ c \notin DOMAIN duplicates1
           /\ <<lines1_map[c][1], c>> \in Range(in_both_files)

\* n is listed under c exactly if n is a body line whose stripped text is the
\* non-empty c; lists are non-empty and ascend; no line is listed twice
WellFormedIndex(map, lines) ==
    /\ \A c \in DOMAIN map :
           /\ c # <<>>
           /\ map[c] # <<>>
           /\ \A i \in 1..(Len(map[c]) - 1) : map[c][i] < map[c][i + 1]
           /\ Range(map[c]) = BodyLinesWith(lines, c)
    /\ \A n \in 2..Len(lines) :
           Stripped(lines[n]) # <<>> =>
               /\ Stripped(lines[n]) \in DOMAIN map
               /\ n \in Range(map[Stripped(lines[n])])
    /\ \A c, d \in DOMAIN map :
           c # d => Range(map[c]) \cap Range(map[d]) = {}

\* C10 - well-formed index: the index returned for a readable file lists n
\* under c if and only if n >= 2 and line n, stripped, is the non-empty c.
IndexWellFormed ==
    /\ Indexed1 => WellFormedIndex(lines1_map, file1.lines)
    /\ Indexed2 => WellFormedIndex(lines2_map, file2.lines)

\* a body with a whitespace-only line and the same content on two lines that
\* differ in their padding
IndexWitness ==
    /\ Indexed2
    /\ \E n \in 2..Len(file1.lines) : file1.lines[n] = LineBlank
    /\ \E c \in Keys1 : \E i, j \in Range(lines1_map[c]) :
           file1.lines[i] # file1.lines[j]

-----------------------------------------------------------------------------
(* Properties of a whole run (Spec) *)

PrintedFor(tag, path) ==
    \E i \in DOMAIN stdout : stdout[i].tag = tag /\ stdout[i].path = path

\* C6 - exit code: a run with three arguments in which an input file cannot
\* be read ends with a non-zero exit code, and a run ends with exit code 0
\* only if both files were read and the comparison was completed.
ExitCodeTellsReadFailure ==
    (pc = "exit" /\ argc = 4) =>
        /\ ReadFailed => exitCode # 0
        /\ exitCode = 0 =>
               (file1.kind = "ok" /\ file2.kind = "ok" /\ Printed("summary"))

\* C7 - fail fast: in a run in which either input file cannot be read, no
\* step makes a comparison, creates the output directory, opens or changes an
\* output file, or prints the summary; also when only the second read fails.
FailFast ==
    [][ReadFailed =>
          /\ UNCHANGED <<dirState, outFiles, resultVars>>
          /\ attempted' = <<>>
          /\ ~(Printed("summary") \/ Printed("dir_created") \/ Printed("done"))'
      ]_vars

\* the first file was indexed, the second is missing, the run is over
FailFastWitness ==
    /\ pc = "exit"
    /\ file1.kind = "ok" /\ lines1_map # EmptyMap
    /\ file2.kind = "missing"
    /\ PrintedFor("not_found", "after")
    /\ Printed("aborted")
    /\ dirState = "absent"

SummaryAndDirBeforeFiles ==
    [][attempted' # attempted =>
          /\ Printed("summary")
          /\ dirState # "absent"
          /\ pc \in Range(WritePc)
      ]_vars

\* the directory was missing, was created, and the first file is written
OrderWitness ==
    /\ Printed("dir_created")
    /\ Len(attempted) = 1
    /\ outFiles[OutputNames[1]].state = "written"
    /\ outFiles[OutputNames[1]].rows # <<>>

====
